---------------------------- MODULE Spec2Model ----------------------------
(***************************************************************************)
(* Budget API (src/server.js): the budgets and transactions tables, and    *)
(* the request handlers that read and write them.  Every `await            *)
(* pool.query(...)` of a handler is one atomic step on the store; the code *)
(* between two awaits is local to the request.  Money is an integer number *)
(* of thousandths, so that 650.50 is 650500 and toFixed(2) has something   *)
(* to round.  The tables carry no constraint: the code states none.        *)
(***************************************************************************)
EXTENDS Integers, Sequences, FiniteSets, TLC

VARIABLES
    budgets,        \* rows of table budgets
    transactions,   \* rows of table transactions
    nextBudgetId,   \* serial of budgets.id
    nextTxId,       \* serial of transactions.id
    pc,             \* per request slot: the await the handler stands at
    req,            \* per request slot: the request and the handler's locals
    resp            \* per request slot: the response sent (NoResp before)

vars == <<budgets, transactions, nextBudgetId, nextTxId, pc, req, resp>>

----------------------------------------------------------------------------
(* Bounds *)

MaxBudgets == 2
MaxTransactions == 2
MaxBreakdown == 2              \* entries of an expense breakdown

FixedDigits == 2               \* the 2 of toFixed(2)
Scale == 10 * 10 * 10          \* thousandths per unit

Procs == {1, 2}                \* request slots of the connection pool
SeqProcs == {1}                \* the slot used when requests run one at a time
Users == {1, 2}
BudgetIds == 1 .. MaxBudgets

----------------------------------------------------------------------------
(* JavaScript / SQL values *)

Undefined == [t |-> "undefined"]
Null == [t |-> "null"]
NaN == [t |-> "nan"]
Num(n) == [t |-> "num", n |-> n]
Str(s) == [t |-> "str", s |-> s]

IsNum(v) == v.t = "num"

\* JavaScript truthiness: !v is ~Truthy(v)
Truthy(v) ==
    CASE v.t = "num" -> v.n # 0
      [] v.t = "str" -> v.s # <<>>
      [] OTHER -> FALSE

\* node-postgres sends undefined as NULL
PgParam(v) == IF v.t \in {"undefined", "nan"} THEN Null ELSE v

\* Number(x || 0) of a column value
NumberOrZero(v) == IF Truthy(v) THEN v.n ELSE 0

----------------------------------------------------------------------------
(* Strings are sequences of characters; parseFloat and toFixed *)

Digits == <<"0", "1", "2", "3", "4", "5", "6", "7", "8", "9">>
IsDigit(c) == \E i \in 1 .. Len(Digits) : Digits[i] = c
DigitOf(c) == (CHOOSE i \in 1 .. Len(Digits) : Digits[i] = c) - 1

RECURSIVE Pow10(_)
Pow10(k) == IF k = 0 THEN 1 ELSE 10 * Pow10(k - 1)

Cent == Scale \div Pow10(FixedDigits)    \* thousandths per hundredth

Drop(s, k) == SubSeq(s, k + 1, Len(s))

RECURSIVE TrimStart(_)
TrimStart(s) == IF s # <<>> /\ Head(s) = " " THEN TrimStart(Tail(s)) ELSE s

\* the longest prefix of s made of digits
RECURSIVE DigitRun(_)
DigitRun(s) ==
    IF s # <<>> /\ IsDigit(Head(s)) THEN <<Head(s)>> \o DigitRun(Tail(s)) ELSE <<>>

RECURSIVE DigitsValue(_)
DigitsValue(ds) ==
    IF ds = <<>> THEN 0
    ELSE 10 * DigitsValue(SubSeq(ds, 1, Len(ds) - 1)) + DigitOf(ds[Len(ds)])

\* a fraction's digits as thousandths (exact up to three digits)
FracValue(fp) == (DigitsValue(fp) * Scale) \div Pow10(Len(fp))

\* parseFloat of a string: leading blanks, a sign, digits, a point, digits;
\* whatever follows the longest such prefix is ignored; NaN without a digit
ParseFloatStr(s) ==
    LET t == TrimStart(s)
        signed == t # <<>> /\ Head(t) \in {"-", "+"}
        neg == t # <<>> /\ Head(t) = "-"
        u == IF signed THEN Tail(t) ELSE t
        ip == DigitRun(u)
        r == Drop(u, Len(ip))
        fp == IF r # <<>> /\ Head(r) = "." THEN DigitRun(Tail(r)) ELSE <<>>
        mag == DigitsValue(ip) * Scale + FracValue(fp)
    IN  IF ip = <<>> /\ fp = <<>> THEN NaN
        ELSE Num(IF neg THEN 0 - mag ELSE mag)

\* parseFloat of any value: a number is its own value, null and undefined
\* read as the strings "null" and "undefined"
ParseFloat(v) ==
    CASE v.t = "str" -> ParseFloatStr(v.s)
      [] v.t = "num" -> v
      [] OTHER -> NaN

RECURSIVE NatToChars(_)
NatToChars(k) ==
    IF k < 10 THEN <<Digits[k + 1]>>
    ELSE NatToChars(k \div 10) \o <<Digits[(k % 10) + 1]>>

\* the hundredths toFixed(2) may pick for |x| = a thousandths: the nearest;
\* at a decimal tie the double behind x lies on either side
NearestCents(a) ==
    LET lo == a \div Cent
        rem == a % Cent
    IN  IF 2 * rem < Cent THEN {lo}
        ELSE IF 2 * rem > Cent THEN {lo + 1}
        ELSE {lo, lo + 1}

\* the string of q hundredths with FixedDigits decimals
CentsToChars(neg, q) ==
    LET unit == Pow10(FixedDigits)
        frac == NatToChars(q % unit)
        pad == [i \in 1 .. (FixedDigits - Len(frac)) |-> "0"]
    IN  (IF neg THEN <<"-">> ELSE <<>>)
            \o NatToChars(q \div unit) \o <<".">> \o pad \o frac

\* x.toFixed(2): the strings it may return
ToFixed(n) ==
    LET a == IF n < 0 THEN 0 - n ELSE n
    IN  {Str(CentsToChars(n < 0, q)) : q \in NearestCents(a)}

----------------------------------------------------------------------------
(* SQL helpers *)

RECURSIVE SetToSeq(_)
SetToSeq(S) ==
    IF S = {} THEN <<>>
    ELSE LET x == CHOOSE y \in S : TRUE IN <<x>> \o SetToSeq(S \ {x})

\* SUM(...) over a sequence of terms: NULL terms are skipped, and the sum of
\* no non-NULL term is NULL
RECURSIVE SqlSum(_)
SqlSum(terms) ==
    IF terms = <<>> THEN Null
    ELSE LET rest == SqlSum(Tail(terms))
             h == Head(terms)
         IN  IF h.t = "null" THEN rest
             ELSE IF rest.t = "null" THEN h
             ELSE Num(h.n + rest.n)

Coalesce(v, d) == IF v.t = "null" THEN d ELSE v

\* the orders ORDER BY kuukausi ASC may return the rows in
RECURSIVE OrderedByMonth(_)
OrderedByMonth(rows) ==
    IF rows = {} THEN {<<>>}
    ELSE UNION {{<<r>> \o rest : rest \in OrderedByMonth(rows \ {r})} :
                r \in {x \in rows : \A y \in rows : x.month <= y.month}}

\* the sum without its budget_id condition
TransactionSumAnyBudget(id, typ) ==
    LET rows == SetToSeq({t \in transactions : t.tyyppi = typ})
    IN  Coalesce(SqlSum([i \in 1 .. Len(rows) |-> rows[i].summa]), Num(0))

\* SELECT COALESCE(SUM(summa), 0) FROM transactions
\*   WHERE budget_id = id AND tyyppi = typ
TransactionSum(id, typ) ==
    LET rows == SetToSeq({t \in transactions : t.budget_id = id /\ t.tyyppi = typ})
    IN  Coalesce(SqlSum([i \in 1 .. Len(rows) |-> rows[i].summa]), Num(0))

\* the sum without its CASE on the type
JoinedSumAnyType(b, typ) ==
    LET rows == SetToSeq({t \in transactions : t.budget_id = b.id})
    IN  Coalesce(SqlSum([i \in 1 .. Len(rows) |-> rows[i].summa]), Num(0))

\* COALESCE(SUM(CASE WHEN t.tyyppi = typ THEN t.summa ELSE 0 END), 0) over the
\* rows budget b joins to (LEFT JOIN: one all-NULL row when there is none)
JoinedSum(b, typ) ==
    LET rows == SetToSeq({t \in transactions : t.budget_id = b.id})
        term(t) == IF t.tyyppi = typ THEN t.summa ELSE Num(0)
    IN  Coalesce(SqlSum(IF rows = <<>> THEN <<Num(0)>>
                        ELSE [i \in 1 .. Len(rows) |-> term(rows[i])]), Num(0))

----------------------------------------------------------------------------
(* Responses *)

NoResp == [status |-> 0]
Reply(code, b) == [status |-> code, body |-> b]
ErrorBody == [error |-> TRUE]

\* res.status(..).json(..): the handler of request rq ends with response r
Send(p, rq, r) ==
    /\ resp' = [resp EXCEPT ![p] = r]
    /\ req' = [req EXCEPT ![p] = rq]
    /\ pc' = [pc EXCEPT ![p] = "done"]

\* the handler of request rq stands at its next await
Await(p, label, rq) ==
    /\ pc' = [pc EXCEPT ![p] = label]
    /\ req' = [req EXCEPT ![p] = rq]
    /\ UNCHANGED resp

Init ==
    /\ budgets = {}
    /\ transactions = {}
    /\ nextBudgetId = 1
    /\ nextTxId = 1
    /\ pc = [p \in Procs |-> "idle"]
    /\ req = [p \in Procs |-> [op |-> "none"]]
    /\ resp = [p \in Procs |-> NoResp]

----------------------------------------------------------------------------
(* POST /api/budgets *)

Tulo == Str(<<"t", "u", "l", "o">>)      \* income
Meno == Str(<<"m", "e", "n", "o">>)      \* expense

\* the check with month and year bound to each other's column
ExistingBudgetSwapped(u, m, y) ==
    {b \in budgets : b.user_id = u /\ b.kuukausi = y /\ b.vuosi = m}

\* SELECT * FROM budgets WHERE user_id = u AND kuukausi = m AND vuosi = y
ExistingBudget(u, m, y) ==
    {b \in budgets : b.user_id = u /\ b.kuukausi = m /\ b.vuosi = y}

\* v => v ? parseFloat(v) || 0 : 0
ExpenseAmount(v) ==
    IF Truthy(v)
    THEN LET f == ParseFloat(v) IN IF Truthy(f) THEN f.n ELSE 0
    ELSE 0

RECURSIVE SumSeq(_)
SumSeq(ns) == IF ns = <<>> THEN 0 ELSE Head(ns) + SumSeq(Tail(ns))

\* Object.values(expenses).map(..).reduce((a, b) => a + b, 0)
ExpensesTotal(vals) == SumSeq([i \in 1 .. Len(vals) |-> ExpenseAmount(vals[i])])

\* x !== undefined && x !== "" ? parseFloat(x) : null
OptionalAmount(v) ==
    IF v.t # "undefined" /\ v # Str(<<>>) THEN ParseFloat(v) ELSE Null

\* the row INSERT INTO budgets stores; fixed is the toFixed(2) string
NewBudgetRow(id, u, body, fixed) ==
    [id |-> id, user_id |-> u, kuukausi |-> body.month, vuosi |-> body.year,
     suunniteltu_tulot |-> PgParam(OptionalAmount(body.income)),
     toteutunut_tulot |-> PgParam(OptionalAmount(body.actualIncome)),
     suunniteltu_menot |-> PgParam(OptionalAmount(fixed)),
     toteutunut_menot |-> Num(0)]

CreatesInFlight == Cardinality({q \in Procs : pc[q] = "cb_insert"})

\* the existence check
CreateBudgetCheck(p, u, body) ==
    LET rq == [op |-> "createBudget", user |-> u, body |-> body]
    IN  /\ pc[p] = "idle"
        /\ UNCHANGED <<budgets, transactions, nextBudgetId, nextTxId>>
        /\ IF ExistingBudget(u, body.month, body.year) # {}
           THEN Send(p, rq, Reply(400, ErrorBody))
           ELSE /\ nextBudgetId + CreatesInFlight <= MaxBudgets
                /\ Await(p, "cb_insert", rq)

\* the sum of the breakdown and the INSERT
CreateBudgetInsert(p) ==
    LET rq == req[p]
    IN  /\ pc[p] = "cb_insert"
        /\ UNCHANGED <<transactions, nextTxId>>
        /\ IF rq.body.expenses.t = "undefined"
           THEN \* Object.values(undefined) throws: the catch answers 500
                /\ Send(p, rq, Reply(500, ErrorBody))
                /\ UNCHANGED <<budgets, nextBudgetId>>
           ELSE \E fixed \in ToFixed(ExpensesTotal(rq.body.expenses.vals)) :
                    LET row == NewBudgetRow(nextBudgetId, rq.user, rq.body, fixed)
                    IN  /\ budgets' = budgets \cup {row}
                        /\ nextBudgetId' = nextBudgetId + 1
                        /\ Send(p, rq, Reply(201, [success |-> TRUE, budget |-> row]))

----------------------------------------------------------------------------
(* POST /api/transactions *)

\* the test with ! on all four fields
MissingFieldAllFalsy(body) ==
    \/ ~Truthy(body.budget_id)
    \/ ~Truthy(body.tyyppi)
    \/ ~Truthy(body.summa)
    \/ ~Truthy(body.kuvaus)

\* !budget_id || !tyyppi || summa === undefined || kuvaus === undefined
MissingField(body) ==
    \/ ~Truthy(body.budget_id)
    \/ ~Truthy(body.tyyppi)
    \/ body.summa.t = "undefined"
    \/ body.kuvaus.t = "undefined"

NewTransactionRow(id, u, body) ==
    [id |-> id, budget_id |-> body.budget_id.n, user_id |-> u,
     tyyppi |-> body.tyyppi, summa |-> PgParam(body.summa),
     kuvaus |-> PgParam(body.kuvaus)]

CreateTransaction(p, u, body) ==
    LET rq == [op |-> "createTransaction", user |-> u, body |-> body]
    IN  /\ pc[p] = "idle"
        /\ UNCHANGED <<budgets, nextBudgetId>>
        /\ IF MissingField(body)
           THEN /\ Send(p, rq, Reply(400, ErrorBody))
                /\ UNCHANGED <<transactions, nextTxId>>
           ELSE LET row == NewTransactionRow(nextTxId, u, body)
                IN  /\ nextTxId <= MaxTransactions
                    /\ transactions' = transactions \cup {row}
                    /\ nextTxId' = nextTxId + 1
                    /\ Send(p, rq, Reply(201, [success |-> TRUE, transaction |-> row]))

----------------------------------------------------------------------------
(* PUT /api/budgets/:id *)

\* the lookup without its user_id condition
BudgetById(id, u) == {b \in budgets : b.id = id}

\* SELECT id FROM budgets WHERE id = id AND user_id = u (and the WHERE of the
\* UPDATE and of the DELETE)
OwnedBudget(id, u) == {b \in budgets : b.id = id /\ b.user_id = u}

\* x !== null ? x : 0
ValidExpenses(v) == IF v.t # "null" THEN v ELSE Num(0)

\* the UPDATE with $1 written to the planned income column
UpdatedRowPlannedIncome(b, body) ==
    [b EXCEPT !.suunniteltu_tulot = PgParam(body.toteutunut_tulot),
              !.suunniteltu_menot = PgParam(ValidExpenses(body.suunniteltu_menot)),
              !.toteutunut_menot = PgParam(ValidExpenses(body.toteutunut_menot))]

\* SET toteutunut_tulot = $1, suunniteltu_menot = $2, toteutunut_menot = $3
UpdatedRow(b, body) ==
    [b EXCEPT !.toteutunut_tulot = PgParam(body.toteutunut_tulot),
              !.suunniteltu_menot = PgParam(ValidExpenses(body.suunniteltu_menot)),
              !.toteutunut_menot = PgParam(ValidExpenses(body.toteutunut_menot))]

\* the ownership check
UpdateBudgetCheck(p, u, id, body) ==
    LET rq == [op |-> "updateBudget", user |-> u, id |-> id, body |-> body]
    IN  /\ pc[p] = "idle"
        /\ UNCHANGED <<budgets, transactions, nextBudgetId, nextTxId>>
        /\ IF OwnedBudget(id, u) = {}
           THEN Send(p, rq, Reply(404, ErrorBody))
           ELSE Await(p, "ub_update", rq)

\* the UPDATE ... RETURNING *; rows[0] is undefined when no row matched, and
\* JSON drops an undefined field
UpdateBudgetWrite(p) ==
    LET rq == req[p]
        hit == OwnedBudget(rq.id, rq.user)
    IN  /\ pc[p] = "ub_update"
        /\ UNCHANGED <<transactions, nextBudgetId, nextTxId>>
        /\ budgets' = (budgets \ hit) \cup {UpdatedRow(b, rq.body) : b \in hit}
        /\ IF hit = {}
           THEN Send(p, rq, Reply(200, [message |-> TRUE]))
           ELSE \E b \in hit :
                    Send(p, rq, Reply(200, [message |-> TRUE,
                                            budget |-> UpdatedRow(b, rq.body)]))

----------------------------------------------------------------------------
(* DELETE /api/budgets/:id *)

\* DELETE FROM budgets WHERE id = id AND user_id = u RETURNING *
DeleteBudget(p, u, id) ==
    LET hit == OwnedBudget(id, u)
        \* result.rows holds the rows RETURNING * gives back
        rq == [op |-> "deleteBudget", user |-> u, id |-> id, rows |-> hit]
    IN  /\ pc[p] = "idle"
        /\ UNCHANGED <<transactions, nextBudgetId, nextTxId>>
        /\ budgets' = budgets \ hit
        /\ IF hit = {}
           THEN Send(p, rq, Reply(404, ErrorBody))
           ELSE Send(p, rq, Reply(200, [success |-> TRUE]))

----------------------------------------------------------------------------
(* GET /api/budgets *)

\* one row of the SELECT ... LEFT JOIN ... GROUP BY b.id, ...
ListRow(b) ==
    [id |-> b.id, user_id |-> b.user_id, month |-> b.kuukausi, year |-> b.vuosi,
     income |-> b.toteutunut_tulot,
     expenses |-> b.suunniteltu_menot,
     actual_expenses |-> b.toteutunut_menot,
     transaction_income |-> JoinedSum(b, Tulo),
     transaction_expenses |-> JoinedSum(b, Meno)]

\* budget => ({...budget, actual_income, actual_expenses, total})
ListView(r) ==
    [id |-> r.id, user_id |-> r.user_id, month |-> r.month, year |-> r.year,
     income |-> r.income, expenses |-> r.expenses,
     transaction_income |-> r.transaction_income,
     transaction_expenses |-> r.transaction_expenses,
     actual_income |->
        Num(NumberOrZero(r.income) + NumberOrZero(r.transaction_income)),
     actual_expenses |->
        Num(NumberOrZero(r.expenses) + NumberOrZero(r.transaction_expenses)),
     total |->
        Num((NumberOrZero(r.income) + NumberOrZero(r.transaction_income))
            - (NumberOrZero(r.actual_expenses)
               + NumberOrZero(r.transaction_expenses)))]

\* the list without its WHERE
EveryBudget(u) == budgets

\* WHERE b.user_id = u
ListedBudgets(u) == {b \in budgets : b.user_id = u}

ListBudgets(p, u) ==
    LET rq == [op |-> "listBudgets", user |-> u]
    IN  /\ pc[p] = "idle"
        /\ UNCHANGED <<budgets, transactions, nextBudgetId, nextTxId>>
        /\ \E rows \in OrderedByMonth({ListRow(b) : b \in ListedBudgets(u)}) :
               Send(p, rq, Reply(200, [i \in 1 .. Len(rows) |-> ListView(rows[i])]))

----------------------------------------------------------------------------
(* GET /api/budgets/:id *)

\* SELECT id, user_id, kuukausi AS month, ..., suunniteltu_menot AS expenses
DetailRow(b) ==
    [id |-> b.id, user_id |-> b.user_id, month |-> b.kuukausi, year |-> b.vuosi,
     income |-> b.suunniteltu_tulot,
     actual_income |-> b.toteutunut_tulot,
     planned_expenses |-> b.suunniteltu_menot,
     actual_expenses |-> b.toteutunut_menot,
     expenses |-> b.suunniteltu_menot]

\* {...budget, transaction_expenses, transaction_income, actual_expenses,
\*  actual_income}
DetailView(r, transaction_expenses, transaction_income) ==
    [id |-> r.id, user_id |-> r.user_id, month |-> r.month, year |-> r.year,
     income |-> r.income, planned_expenses |-> r.planned_expenses,
     expenses |-> r.expenses,
     transaction_expenses |-> transaction_expenses,
     transaction_income |-> transaction_income,
     actual_expenses |->
        Num(NumberOrZero(r.expenses) + NumberOrZero(transaction_expenses)),
     actual_income |->
        Num(NumberOrZero(r.actual_income) + NumberOrZero(transaction_income))]

\* the budget row
GetBudgetRow(p, u, id) ==
    LET rq == [op |-> "getBudget", user |-> u, id |-> id]
    IN  /\ pc[p] = "idle"
        /\ UNCHANGED <<budgets, transactions, nextBudgetId, nextTxId>>
        /\ IF OwnedBudget(id, u) = {}
           THEN Send(p, rq, Reply(404, ErrorBody))
           ELSE \E b \in OwnedBudget(id, u) :
                    Await(p, "gb_expenses",
                          [op |-> "getBudget", user |-> u, id |-> id,
                           budget |-> DetailRow(b)])

\* the sum of the expense transactions
GetBudgetExpenses(p) ==
    /\ pc[p] = "gb_expenses"
    /\ UNCHANGED <<budgets, transactions, nextBudgetId, nextTxId>>
    /\ Await(p, "gb_income",
             [op |-> "getBudget", user |-> req[p].user, id |-> req[p].id,
              budget |-> req[p].budget,
              transaction_expenses |-> TransactionSum(req[p].id, Meno)])

\* the sum of the income transactions, and the response
GetBudgetIncome(p) ==
    LET rq == req[p]
    IN  /\ pc[p] = "gb_income"
        /\ UNCHANGED <<budgets, transactions, nextBudgetId, nextTxId>>
        /\ Send(p, rq, Reply(200, DetailView(rq.budget, rq.transaction_expenses,
                                             TransactionSum(rq.id, Tulo))))

----------------------------------------------------------------------------
(* the response is sent and the slot takes the next request *)

Return(p) ==
    /\ pc[p] = "done"
    /\ pc' = [pc EXCEPT ![p] = "idle"]
    /\ req' = [req EXCEPT ![p] = [op |-> "none"]]
    /\ resp' = [resp EXCEPT ![p] = NoResp]
    /\ UNCHANGED <<budgets, transactions, nextBudgetId, nextTxId>>

----------------------------------------------------------------------------
(* Requests *)

Chars(n) == Str(NatToChars(n))
Obj(vals) == [t |-> "obj", vals |-> vals]
Extra == Str(<<"e", "x", "t", "r", "a">>)
Muu == Str(<<"m", "u", "u">>)              \* a type that is neither

Periods == {[month |-> 3, year |-> 2024], [month |-> 4, year |-> 2024],
            [month |-> 3, year |-> 2025]}
March2024 == [month |-> 3, year |-> 2024]

\* {rent: "500", food: "150.5"}
RentAndFood == Obj(<<Chars(500), Str(<<"1", "5", "0", ".", "5">>)>>)

CreateBody(period, income, actualIncome, expenses) ==
    [month |-> period.month, year |-> period.year, income |-> income,
     actualIncome |-> actualIncome, expenses |-> expenses]

\* {month, year, income: "1000", expenses: {rent: "500", food: "150.5"}}, and
\* a body without expenses
CreateBodies ==
    {CreateBody(pd, Chars(1000), Undefined, RentAndFood) : pd \in Periods}
    \cup {CreateBody(March2024, Undefined, Undefined, Undefined)}

UpdateBody(income, planned, recorded) ==
    [toteutunut_tulot |-> income, suunniteltu_menot |-> planned,
     toteutunut_menot |-> recorded]

\* {} and {toteutunut_tulot: 200, suunniteltu_menot: null, toteutunut_menot: 30}
UpdateBodies ==
    {UpdateBody(Undefined, Undefined, Undefined),
     UpdateBody(Num(200 * Scale), Null, Num(30 * Scale))}

TransactionBody(budget_id, tyyppi, summa, kuvaus) ==
    [budget_id |-> budget_id, tyyppi |-> tyyppi, summa |-> summa,
     kuvaus |-> kuvaus]

ValidTransactionBodies ==
    {TransactionBody(Num(id), ty, Num(50 * Scale), Extra) :
        id \in BudgetIds, ty \in {Tulo, Meno}}
    \cup {TransactionBody(Num(1), Muu, Num(0), Str(<<>>))}

\* bodies with a field absent, and with a budget_id or a type that is there
\* and falsy
PartialTransactionBodies ==
    {TransactionBody(Undefined, Meno, Num(50 * Scale), Extra),
     TransactionBody(Num(0), Meno, Num(50 * Scale), Extra),
     TransactionBody(Null, Meno, Num(50 * Scale), Extra),
     TransactionBody(Num(1), Undefined, Num(50 * Scale), Extra),
     TransactionBody(Num(1), Str(<<>>), Num(50 * Scale), Extra),
     TransactionBody(Num(1), Meno, Undefined, Extra),
     TransactionBody(Num(1), Meno, Num(50 * Scale), Undefined)}

TransactionBodies == ValidTransactionBodies \cup PartialTransactionBodies

\* a request arrives at slot p and its handler runs to its first await
Receive(p, users, createBodies, transactionBodies, updateBodies) ==
    \/ \E u \in users, body \in createBodies : CreateBudgetCheck(p, u, body)
    \/ \E u \in users, body \in transactionBodies : CreateTransaction(p, u, body)
    \/ \E u \in users, id \in BudgetIds, body \in updateBodies :
            UpdateBudgetCheck(p, u, id, body)
    \/ \E u \in users, id \in BudgetIds : DeleteBudget(p, u, id)
    \/ \E u \in users : ListBudgets(p, u)
    \/ \E u \in users, id \in BudgetIds : GetBudgetRow(p, u, id)

\* a handler resumes after an await
Resume(p) ==
    \/ CreateBudgetInsert(p)
    \/ UpdateBudgetWrite(p)
    \/ GetBudgetExpenses(p)
    \/ GetBudgetIncome(p)
    \/ Return(p)

\* requests run one at a time, from two users; the ledger stays small
SharedTransactionBodies ==
    {TransactionBody(Num(1), Tulo, Num(50 * Scale), Extra)}

SharedUpdateBodies ==
    {UpdateBody(Num(200 * Scale), Null, Num(30 * Scale))}

NextSeq ==
    \E p \in SeqProcs :
        \/ Receive(p, Users, CreateBodies, SharedTransactionBodies,
                   SharedUpdateBodies)
        \/ Resume(p)

SpecSeq == Init /\ [][NextSeq]_vars

\* requests run one at a time, from one user, with transactions of every
\* shape
Owner == {1}
LedgerCreateBodies ==
    {CreateBody(pd, Chars(1000), Undefined, RentAndFood) :
        pd \in {pp \in Periods : pp.year = March2024.year}}

NextLedger ==
    \E p \in SeqProcs :
        \/ Receive(p, Owner, LedgerCreateBodies, TransactionBodies, UpdateBodies)
        \/ Resume(p)

SpecLedger == Init /\ [][NextLedger]_vars


\* budgets are created, with breakdowns of every shape, and deleted
ExpenseValues ==
    {Chars(500), Str(<<"1", "5", "0", ".", "5">>), Str(<<>>),
     Str(<<"1", "2", "a", "b", "c">>), Str(<<"a", "b", "c">>),
     Str(<<"0", ".", "0", "0", "4">>), Str(<<"0", ".", "0", "0", "5">>),
     Str(<<"-", "5">>), Num(20 * Scale), Null}

Breakdowns ==
    UNION {[1 .. n -> ExpenseValues] : n \in 0 .. MaxBreakdown}

BreakdownBodies ==
    {CreateBody(March2024, Chars(1000), Undefined, Obj(vals)) : vals \in Breakdowns}
    \cup {CreateBody(March2024, Str(<<>>), Chars(200), Obj(<<>>))}

NextCreate ==
    \E p \in SeqProcs :
        \/ \E u \in Owner, body \in BreakdownBodies : CreateBudgetCheck(p, u, body)
        \/ CreateBudgetInsert(p)
        \/ \E u \in Owner, id \in BudgetIds : DeleteBudget(p, u, id)
        \/ Return(p)

SpecCreate == Init /\ [][NextCreate]_vars

\* requests overlap: each slot of the pool runs its own handler, and the
\* awaits of the two interleave in any order
OverlapCreateBodies == {CreateBody(March2024, Chars(1000), Undefined, RentAndFood)}
OverlapTransactionBodies ==
    {TransactionBody(Num(1), ty, Num(50 * Scale), Extra) : ty \in {Tulo, Meno}}
OverlapUpdateBodies == {UpdateBody(Num(200 * Scale), Null, Num(30 * Scale))}

Next ==
    \E p \in Procs :
        \/ Receive(p, Owner, OverlapCreateBodies, OverlapTransactionBodies,
                   OverlapUpdateBodies)
        \/ Resume(p)

Spec == Init /\ [][Next]_vars

----------------------------------------------------------------------------
(* Properties.  What the specification says is written here on the tables  *)
(* themselves, not with the operators of the handlers.                     *)

\* the budgets of user u for month m of year y
SlotBudgets(u, m, y) ==
    {b \in budgets : b.user_id = u /\ b.kuukausi = m /\ b.vuosi = y}

\* slot p has answered a request of kind op and the answer stands
Answered(p, op) == pc[p] = "done" /\ req[p].op = op

\* in this step slot p receives a request of kind op
Receives(p, op) == pc[p] = "idle" /\ pc'[p] # "idle" /\ req'[p].op = op

ConflictAnswer == Reply(400, ErrorBody)
NotFoundAnswer == Reply(404, ErrorBody)

\* C1, the invariant: no two budget rows share (user_id, month, year)
OneBudgetPerSlot ==
    \A u \in Users, pd \in Periods :
        Cardinality(SlotBudgets(u, pd.month, pd.year)) <= 1

\* C1, the duplicate create: received for a slot that has a budget, it is
\* answered 400 in that step and the table is left as it was
DuplicateCreateRefused ==
    \A p \in Procs :
        (/\ Receives(p, "createBudget")
         /\ SlotBudgets(req'[p].user, req'[p].body.month, req'[p].body.year) # {})
        => /\ pc'[p] = "done"
           /\ resp'[p] = ConflictAnswer
           /\ budgets' = budgets
           /\ Cardinality({b \in budgets' :
                              /\ b.user_id = req'[p].user
                              /\ b.kuukausi = req'[p].body.month
                              /\ b.vuosi = req'[p].body.year}) = 1

\* C1: when requests run one at a time there is at most one budget per
\* (user_id, month, year) in every reachable state, and a create-budget for a
\* slot that already has a budget answers 400, inserts nothing and leaves
\* exactly one budget for the slot
C1_OneBudgetPerPeriod == []OneBudgetPerSlot /\ [][DuplicateCreateRefused]_vars

\* C1 witness: a duplicate create has been answered 400 while the slot's one
\* budget stands, and the same user holds a second budget in another period
C1_Witness ==
    \E p \in Procs :
        /\ Answered(p, "createBudget")
        /\ resp[p] = ConflictAnswer
        /\ Cardinality(SlotBudgets(req[p].user, req[p].body.month,
                                   req[p].body.year)) = 1
        /\ Cardinality({b \in budgets : b.user_id = req[p].user}) = 2

\* C2: when two create-budget requests for the same user, month and year
\* overlap, they are not both answered 201 with both rows stored, and the
\* slot never holds more than one budget
C2_OneOfTwoCreatesWins ==
    /\ OneBudgetPerSlot
    /\ \A p, q \in Procs :
           (/\ p # q
            /\ Answered(p, "createBudget") /\ Answered(q, "createBudget")
            /\ req[p].user = req[q].user
            /\ req[p].body.month = req[q].body.month
            /\ req[p].body.year = req[q].body.year
            /\ resp[p].status = 201 /\ resp[q].status = 201)
           => ~(resp[p].body.budget \in budgets /\ resp[q].body.budget \in budgets)

\* C3, one step: an update-budget or delete-budget received from a caller
\* who is not the owner of the budget with that id is answered 404 at once,
\* the answer given for an id no budget has, and the budget stays as it was
ForeignWriteRefused ==
    \A p \in Procs :
        (Receives(p, "updateBudget") \/ Receives(p, "deleteBudget"))
        => /\ \A b \in budgets :
                 (b.id = req'[p].id /\ b.user_id # req'[p].user)
                 => /\ pc'[p] = "done"
                    /\ resp'[p] = NotFoundAnswer
                    /\ b \in budgets'
                    /\ budgets' = budgets
           /\ (\A b \in budgets : b.id # req'[p].id)
                 => (pc'[p] = "done" /\ resp'[p] = NotFoundAnswer)

\* C3: an update-budget or delete-budget by a caller other than the owner
\* answers 404, as for an id that does not exist, and leaves every field of
\* the budget, and its existence, unchanged
C3_ForeignWriteIs404 == [][ForeignWriteRefused]_vars

\* C3 witness: such a request has been answered 404 and the other user's
\* budget with that id stands
C3_Witness ==
    \E p \in Procs, b \in budgets :
        /\ Answered(p, "updateBudget") \/ Answered(p, "deleteBudget")
        /\ b.id = req[p].id
        /\ b.user_id # req[p].user
        /\ resp[p] = NotFoundAnswer

\* the amounts of a set of transactions, added up (a NULL amount adds nothing)
RECURSIVE AmountTotal(_)
AmountTotal(ts) ==
    IF ts = {} THEN 0
    ELSE LET t == CHOOSE x \in ts : TRUE
         IN  (IF IsNum(t.summa) THEN t.summa.n ELSE 0) + AmountTotal(ts \ {t})

\* the transactions of budget id whose type is typ
Ledger(id, typ) == {t \in transactions : t.budget_id = id /\ t.tyyppi = typ}

StoredOrZero(v) == IF IsNum(v) THEN v.n ELSE 0

\* recorded income (0 when null) plus the income transactions of b
ExpectedIncome(b) == StoredOrZero(b.toteutunut_tulot) + AmountTotal(Ledger(b.id, Tulo))

\* planned expenses (0 when null) plus the expense transactions of b
ExpectedExpenses(b) ==
    StoredOrZero(b.suunniteltu_menot) + AmountTotal(Ledger(b.id, Meno))

\* the list read of slot p returns budget b, and as a view that satisfies Right
ListReturns(p, b, Right(_)) ==
    \E i \in DOMAIN resp[p].body :
        resp[p].body[i].id = b.id /\ Right(resp[p].body[i])

\* every budget of the caller of a standing list read, and the budget of a
\* standing detail read by its owner, is returned as a view that satisfies Right
ReadsReturn(Right(_, _)) ==
    \A p \in Procs, b \in budgets :
        /\ (Answered(p, "listBudgets") /\ b.user_id = req[p].user)
           => LET RightOfB(v) == Right(b, v) IN ListReturns(p, b, RightOfB)
        /\ (Answered(p, "getBudget") /\ b.id = req[p].id /\ b.user_id = req[p].user)
           => (resp[p].status = 200 /\ Right(b, resp[p].body))

\* C4: for every budget and every ledger, the actual_income the list read and
\* the detail read return is the stored recorded income (0 when null) plus the
\* sum of the amounts of the budget's income transactions
C4_ActualIncome ==
    LET Right(b, v) == v.actual_income = Num(ExpectedIncome(b))
    IN  ReadsReturn(Right)

\* a standing read of budget b by its owner, of the given kind
ReadOf(p, op, b) ==
    /\ Answered(p, op)
    /\ b.user_id = req[p].user
    /\ op = "getBudget" => (b.id = req[p].id /\ resp[p].status = 200)

\* C4 witness: a read stands of a budget with a recorded income and an income
\* transaction, next to an expense transaction that is not counted
C4_Witness ==
    \E p \in Procs, b \in budgets :
        /\ ReadOf(p, "listBudgets", b)
        /\ IsNum(b.toteutunut_tulot) /\ b.toteutunut_tulot.n > 0
        /\ Ledger(b.id, Tulo) # {}
        /\ Ledger(b.id, Meno) # {}

\* C5: for every budget and every ledger, the actual_expenses the list read
\* and the detail read return is the stored planned_expenses (0 when null)
\* plus the sum of the amounts of the budget's expense transactions, with the
\* stored recorded_expenses left out; the detail read gives that sum as
\* transaction_expenses
C5_ActualExpenses ==
    LET Right(b, v) ==
            /\ v.actual_expenses = Num(ExpectedExpenses(b))
            /\ v.transaction_expenses = Num(AmountTotal(Ledger(b.id, Meno)))
    IN  ReadsReturn(Right)

\* C5 witness: the detail read of a budget created with planned_expenses
\* 650.50 that has one expense transaction of 50 returns 700.50 and 50
C5_Witness ==
    \E p \in Procs, b \in budgets :
        /\ ReadOf(p, "getBudget", b)
        /\ b.suunniteltu_menot = Num(650 * Scale + 500)
        /\ Cardinality(Ledger(b.id, Meno)) = 1
        /\ resp[p].body.transaction_expenses = Num(50 * Scale)
        /\ resp[p].body.actual_expenses = Num(700 * Scale + 500)

\* the view carries a total, and it is actual_income - actual_expenses
Balanced(v) ==
    /\ "total" \in DOMAIN v
    /\ v.total = Num(v.actual_income.n - v.actual_expenses.n)

\* C6: every view the list read and the detail read return carries a balance
\* (total), and it equals the view's actual_income minus its actual_expenses
C6_Balance ==
    \A p \in Procs :
        /\ Answered(p, "listBudgets")
           => \A i \in DOMAIN resp[p].body : Balanced(resp[p].body[i])
        /\ (Answered(p, "getBudget") /\ resp[p].status = 200)
           => Balanced(resp[p].body)

\* C7: the list read returns the budgets of its caller, each once and no
\* other; the detail read of a budget that another user owns answers 404 and
\* nothing of the budget
C7_OwnBudgetsOnly ==
    \A p \in Procs :
        /\ Answered(p, "listBudgets")
           => LET own == {b \in budgets : b.user_id = req[p].user}
                  body == resp[p].body
              IN  /\ resp[p].status = 200
                  /\ {body[i].id : i \in DOMAIN body} = {b.id : b \in own}
                  /\ Len(body) = Cardinality(own)
                  /\ \A i \in DOMAIN body : body[i].user_id = req[p].user
        /\ Answered(p, "getBudget")
           => \A b \in budgets :
                  (b.id = req[p].id /\ b.user_id # req[p].user)
                  => resp[p] = NotFoundAnswer

\* C7 witness: a list read stands that returns its caller's budget while the
\* other user has a budget too
C7_Witness ==
    \E p \in Procs, b, c \in budgets :
        /\ ReadOf(p, "listBudgets", b)
        /\ c.user_id # b.user_id
        /\ Len(resp[p].body) = 1

\* a field of the body is absent
Absent(v) == v = Undefined
AnyAbsent(body) ==
    Absent(body.budget_id) \/ Absent(body.tyyppi) \/ Absent(body.summa)
        \/ Absent(body.kuvaus)

\* a budget_id or a type that is there but is null, 0 or the empty string
Empty(v) == v = Null \/ v = Num(0) \/ v = Str(<<>>)

AbsentOrEmpty(body) ==
    AnyAbsent(body) \/ Empty(body.budget_id) \/ Empty(body.tyyppi)

\* in this step slot p receives a create-transaction: when Refused holds of
\* its body it is answered 400 and no row is inserted, and otherwise exactly
\* one row is inserted and the answer is 201 with that row
TransactionStep(Refused(_)) ==
    \A p \in Procs :
        Receives(p, "createTransaction")
        => /\ pc'[p] = "done"
           /\ IF Refused(req'[p].body)
              THEN /\ resp'[p].status = 400
                   /\ transactions' = transactions
              ELSE /\ resp'[p].status = 201
                   /\ resp'[p].body.transaction \notin transactions
                   /\ transactions' = transactions \cup {resp'[p].body.transaction}

\* C8 as stated: a create-transaction with any of budget_id, type, amount or
\* description missing answers 400 and inserts no row, and one that has all
\* four inserts exactly one row and answers 201 with it
C8_AsStated == [][TransactionStep(AnyAbsent)]_vars

\* C8: a create-transaction in which a field is missing, or in which
\* budget_id or type is null, 0 or the empty string, answers 400 and inserts no
\* row; every other one (an amount of 0 and an empty description included)
\* inserts exactly one row and answers 201 with it
C8_RequiredFields == [][TransactionStep(AbsentOrEmpty)]_vars

\* C8 witness: a transaction with amount 0 and an empty description has been
\* stored and answered 201
C8_Witness ==
    \E p \in Procs :
        /\ Answered(p, "createTransaction")
        /\ resp[p].status = 201
        /\ req[p].body.summa = Num(0)
        /\ req[p].body.kuvaus = Str(<<>>)
        /\ resp[p].body.transaction \in transactions

\* the string s from its first character on is digits, with at most one point
\* among them, and nothing else
PlainDecimal(s) ==
    /\ \A i \in DOMAIN s : IsDigit(s[i]) \/ s[i] = "."
    /\ Cardinality({i \in DOMAIN s : s[i] = "."}) <= 1
    /\ \E i \in DOMAIN s : IsDigit(s[i])

Unsigned(s) == IF s # <<>> /\ Head(s) \in {"-", "+"} THEN Tail(s) ELSE s

\* the value, in thousandths, of a string that is a plain decimal
PlainDecimalValue(s) ==
    LET u == Unsigned(s)
        dot == IF \E i \in DOMAIN u : u[i] = "."
               THEN CHOOSE i \in DOMAIN u : u[i] = "."
               ELSE Len(u) + 1
        whole == DigitsValue(SubSeq(u, 1, dot - 1))
        frac == SubSeq(u, dot + 1, Len(u))
        mag == whole * Scale + (DigitsValue(frac) * Scale) \div Pow10(Len(frac))
    IN  IF s # <<>> /\ Head(s) = "-" THEN 0 - mag ELSE mag

\* what a value of the breakdown counts for: its number when it is numeric,
\* and 0 when it is empty or not numeric
NumericOrZero(v) ==
    CASE v.t = "num" -> v.n
      [] v.t = "str" /\ PlainDecimal(Unsigned(v.s)) -> PlainDecimalValue(v.s)
      [] OTHER -> 0

RECURSIVE BreakdownTotal(_)
BreakdownTotal(vals) ==
    IF vals = <<>> THEN 0 ELSE NumericOrZero(Head(vals)) + BreakdownTotal(Tail(vals))

\* n fixed to 2 decimal places: the multiples of a hundredth nearest to it
FixedTo2(n) ==
    {r \in (n - Cent) .. (n + Cent) :
        r % Cent = 0 /\ 2 * r - 2 * n <= Cent /\ 2 * n - 2 * r <= Cent}

\* C9: a successful create-budget stores as planned_expenses the sum of the
\* values of the breakdown, each empty or non-numeric value counted as 0,
\* fixed to 2 decimal places, and stores recorded_expenses 0
C9_PlannedExpensesIsSum ==
    \A p \in Procs :
        (Answered(p, "createBudget") /\ resp[p].status = 201)
        => LET row == resp[p].body.budget
           IN  /\ row.toteutunut_menot = Num(0)
               /\ IsNum(row.suunniteltu_menot)
               /\ row.suunniteltu_menot.n
                     \in FixedTo2(BreakdownTotal(req[p].body.expenses.vals))

\* C10: after a successful update-budget the stored planned_expenses and
\* recorded_expenses are not null, and each is 0 where the request gave null
\* or nothing for it
C10_ExpensesNeverNull ==
    \A p \in Procs, b \in budgets :
        (/\ Answered(p, "updateBudget")
         /\ resp[p].status = 200
         /\ b.id = req[p].id)
        => /\ b.suunniteltu_menot # Null
           /\ b.toteutunut_menot # Null
           /\ req[p].body.suunniteltu_menot \in {Null, Undefined}
                  => b.suunniteltu_menot = Num(0)
           /\ req[p].body.toteutunut_menot \in {Null, Undefined}
                  => b.toteutunut_menot = Num(0)


\* the slot of user u for period pd holds a budget
Active(u, pd) == SlotBudgets(u, pd.month, pd.year) # {}

\* C11, the terminal state: once a delete-budget has removed the budget of a
\* slot and the slot holds none, no step makes the slot active again (the
\* rows the delete removed are those its answered request still holds)
DeletedIsTerminal ==
    \A p \in Procs :
        (Answered(p, "deleteBudget") /\ resp[p].status = 200)
        => \A r \in req[p].rows :
               SlotBudgets(r.user_id, r.kuukausi, r.vuosi) = {}
               => {b \in budgets' : /\ b.user_id = r.user_id
                                     /\ b.kuukausi = r.kuukausi
                                     /\ b.vuosi = r.vuosi} = {}

\* C11, the way out of active: a step that empties a slot is a delete-budget
\* answered with success
LeavesActiveByDelete ==
    \A u \in Users, pd \in Periods :
        (Active(u, pd) /\ ~Active(u, pd)')
        => \E p \in Procs :
               /\ Receives(p, "deleteBudget")
               /\ req'[p].user = u
               /\ resp'[p].status = 200

\* C11: each (user, month, year) slot goes absent -> active -> deleted and
\* deleted is terminal: after the budget of a slot is deleted no request makes
\* the slot active again, and a slot leaves active only through delete
C11_DeletedSlotStaysDeleted ==
    [][DeletedIsTerminal /\ LeavesActiveByDelete]_vars


\* in this step slot p answers an update-budget with success
UpdateSucceeds(p) ==
    /\ pc[p] # "done"
    /\ pc'[p] = "done"
    /\ req'[p].op = "updateBudget"
    /\ resp'[p].status = 200

\* the columns update-budget has no say over
SameIdentity(b, c) ==
    /\ c.id = b.id
    /\ c.user_id = b.user_id
    /\ c.kuukausi = b.kuukausi
    /\ c.vuosi = b.vuosi
    /\ c.suunniteltu_tulot = b.suunniteltu_tulot

\* C12, the frame of a successful update of budget B: the transactions are as
\* they were, every budget but B is as it was, and B is still there with its
\* id, user_id, month, year and planned income
UpdateFrame ==
    \A p \in Procs :
        UpdateSucceeds(p)
        => /\ transactions' = transactions
           /\ Cardinality(budgets') = Cardinality(budgets)
           /\ \A b \in budgets :
                 /\ b.id # req'[p].id => b \in budgets'
                 /\ \E c \in budgets' : SameIdentity(b, c)

\* C12, the consequence: in no step does a budget that is there before and
\* after have another month or year
PeriodKept ==
    \A b \in budgets, c \in budgets' :
        c.id = b.id => (c.kuukausi = b.kuukausi /\ c.vuosi = b.vuosi)

\* C12: a successful update-budget on B changes at most B's recorded income,
\* planned expenses and recorded expenses; B's id, user_id, month, year and
\* planned income, every other budget row and the set of transactions stay as
\* they were, so the month and year of a budget never change while it exists
C12_UpdateFrame == [][UpdateFrame /\ PeriodKept]_vars

\* C12 witness: an update has been answered with the updated row, which now
\* carries the recorded income of the request next to its old planned income,
\* while a second budget and a transaction are stored
C12_Witness ==
    \E p \in Procs :
        /\ Answered(p, "updateBudget")
        /\ resp[p].status = 200
        /\ resp[p].body.budget \in budgets
        /\ resp[p].body.budget.toteutunut_tulot = Num(200 * Scale)
        /\ resp[p].body.budget.suunniteltu_tulot = Num(1000 * Scale)
        /\ Cardinality(budgets) = 2
        /\ transactions # {}


\* transaction t hangs on a stored budget whose owner is the transaction's user
OwnersTransaction(t) ==
    \E b \in budgets : b.id = t.budget_id /\ b.user_id = t.user_id

\* C13: in every reachable state every stored transaction references a stored
\* budget and carries the user_id of that budget's owner, so a
\* create-transaction naming another user's budget, or no budget, stores no
\* transaction on it and leaves the owner's sums as they were
C13_TransactionsBelongToOwner == \A t \in transactions : OwnersTransaction(t)


\* C14, the answer: an update-budget answered with success carries the
\* updated budget row
SuccessCarriesRow ==
    \A p \in Procs :
        (Answered(p, "updateBudget") /\ resp[p].status = 200)
        => /\ "budget" \in DOMAIN resp[p].body
           /\ resp[p].body.budget.id = req[p].id

\* C14, the write: an update-budget that is answered in a step at whose start
\* the caller has no budget with that id is answered 404
GoneAtWriteIs404 ==
    \A p \in Procs :
        (/\ req'[p].op = "updateBudget"
         /\ pc[p] # "done" /\ pc'[p] = "done"
         /\ \A b \in budgets : ~(b.id = req'[p].id /\ b.user_id = req'[p].user))
        => resp'[p] = NotFoundAnswer

\* C14: the ownership check and the write of update-budget act as one step:
\* with a delete-budget of the same budget between the two, the update does
\* not answer success; every success carries the updated row, and an update
\* of a budget that is gone at write time answers 404
C14_UpdateCheckAndWriteAtomic ==
    []SuccessCarriesRow /\ [][GoneAtWriteIs404]_vars


\* Transactions are only ever inserted, one row a step and with rising ids,
\* so the states the transactions table has been in are the sets of
\* its rows with an id up to k
TransactionsUpTo(k) == {t \in transactions : t.id <= k}

\* what the transactions of budget id and type typ add up to in that state
LedgerTotalUpTo(k, id, typ) ==
    AmountTotal({t \in TransactionsUpTo(k) : t.budget_id = id /\ t.tyyppi = typ})

\* C15: a successful detail read of budget B returns the view of one single
\* state of the store between its start and its answer, whatever requests
\* run between its three queries; in particular its transaction_expenses and
\* transaction_income are the sums of one common state of the transactions
C15_DetailReadIsSnapshot ==
    \A p \in Procs :
        (Answered(p, "getBudget") /\ resp[p].status = 200)
        => \E k \in 0 .. (nextTxId - 1) :
               /\ resp[p].body.transaction_expenses
                      = Num(LedgerTotalUpTo(k, req[p].id, Meno))
               /\ resp[p].body.transaction_income
                      = Num(LedgerTotalUpTo(k, req[p].id, Tulo))

================================================================
